---------------------------- MODULE Spec2Model ----------------------------
(***************************************************************************)
(* Streakline animation driven by an image brightness field               *)
(* (main.py) together with the slider panel that writes the parameter     *)
(* store (controls.py).                                                    *)
(*                                                                         *)
(* Numbers.  The program computes in IEEE doubles; the model computes in   *)
(* fixed point:                                                            *)
(*   - 8-bit samples are integers 0..255, a percentile is kept in 1/100   *)
(*     of a sample, RawField values are kept in tenths (0..10 for 0..1),  *)
(*     the logistic output in thousandths, BrightnessBuffer values in     *)
(*     0..255;                                                             *)
(*   - a Column position is an integer number of 1/SubPx pixels;          *)
(*   - a sigma is an integer number of tenths;                            *)
(*   - NaN is the one value NaN, absorbing in arithmetic and false in     *)
(*     every comparison.                                                   *)
(* The canvas is scaled down from 512 x 512 to CANVAS_SIZE x CANVAS_SIZE. *)
(***************************************************************************)
EXTENDS Integers, Sequences, FiniteSets, TLC

\* ------------------------------------------------------------------------
\*  Bounds
\* ------------------------------------------------------------------------

\* frames the animation is followed for before the tick is no longer taken
MaxFrame == 3

\* fixed-point resolution of a Column position: units per pixel
SubPx == 2

\* number of parameters that differ from the default configuration at a time
MaxMoved == 1

\* ------------------------------------------------------------------------
\*  Numbers
\* ------------------------------------------------------------------------

CANVAS_SIZE == 3

Idx == 1..CANVAS_SIZE

\* the not-a-number of the floating point arithmetic (all real values of
\* the model are >= 0)
NaN == -1

IsNaN(v) == v = NaN

Add(a, b) == IF IsNaN(a) \/ IsNaN(b) THEN NaN ELSE a + b

\* a < b of two doubles: false as soon as one side is NaN
Less(a, b) == ~IsNaN(a) /\ ~IsNaN(b) /\ a < b

Clip(v, lo, hi) == IF v < lo THEN lo ELSE IF v > hi THEN hi ELSE v

RECURSIVE SumSeq(_)
SumSeq(s) == IF s = << >> THEN 0 ELSE Head(s) + SumSeq(Tail(s))

RECURSIVE Flatten(_)
\* ndarray.flatten(): the rows of a matrix one after the other
Flatten(m) == IF m = << >> THEN << >> ELSE Head(m) \o Flatten(Tail(m))

Values(s) == {s[i] : i \in DOMAIN s}

\* the array whose elements are those of the function s over 1..n
Array(s) == s \o << >>

\* np.min / np.max of a sequence of doubles: NaN as soon as one is NaN
NpMin(s) ==
    IF NaN \in Values(s) THEN NaN
    ELSE CHOOSE v \in Values(s) : \A w \in Values(s) : v <= w

NpMax(s) ==
    IF NaN \in Values(s) THEN NaN
    ELSE CHOOSE v \in Values(s) : \A w \in Values(s) : v >= w

\* ------------------------------------------------------------------------
\*  scipy.ndimage.gaussian_filter1d, as main.py calls it (mode "reflect",
\*  truncate 4.0)
\* ------------------------------------------------------------------------

\* lw = int(truncate * sd + 0.5), sigma in tenths
KernelRadius(sigma) == (4 * sigma + 5) \div 10

\* exp(-0.5 / sigma^2 * x^2) normalised to sum 1, in 1/256, for the sigmas
\* the model uses; sigma = 0 has no kernel (-0.5 / 0.0)
KernelWeights(sigma) ==
    CASE KernelRadius(sigma) = 0 -> << 256 >>
      [] sigma = 3 -> << 1, 254, 1 >>
      [] sigma = 5 -> << 0, 27, 202, 27, 0 >>

\* index of the sample the "reflect" boundary mode reads for position i
\* (1-based, any integer) of an axis of length n:  d c b a | a b c d | d c b a
Reflect(i, n) ==
    LET j == (i - 1) % (2 * n)
    IN  IF j < n THEN j + 1 ELSE 2 * n - j

\* correlate1d of a sequence of doubles with the kernel of sigma, rounded
\* to the nearest unit
Correlate1d(s, sigma) ==
    LET r == KernelRadius(sigma)
        w == KernelWeights(sigma)
        n == Len(s)
        Tap(i, k) == s[Reflect(i + k - r - 1, n)]
    IN  Array([i \in 1..n |->
            IF \E k \in 1..(2 * r + 1) : IsNaN(Tap(i, k)) THEN NaN
            ELSE (SumSeq([k \in 1..(2 * r + 1) |-> w[k] * Tap(i, k)]) + 128)
                     \div 256])

\* outcome of gaussian_filter1d(s, sigma): sigma = 0 divides by sigma^2 = 0
\* while the kernel is built and raises ZeroDivisionError
GaussianFilter1d(s, sigma) ==
    IF sigma = 0 THEN [exc |-> "ZeroDivisionError", out |-> s]
    ELSE [exc |-> "none", out |-> Correlate1d(s, sigma)]

Transpose(m) == Array([c \in Idx |-> Array([r \in Idx |-> m[r][c]])])

\* gaussian_filter1d(data, sigma, axis=0): along the row index
FilterAxis0(m, sigma) ==
    LET t == Transpose(m)
    IN  Transpose(Array([c \in Idx |-> Correlate1d(t[c], sigma)]))

\* gaussian_filter1d(data, sigma, axis=1): along the column index
FilterAxis1(m, sigma) == Array([r \in Idx |-> Correlate1d(m[r], sigma)])

\* ------------------------------------------------------------------------
\*  Image Loader
\* ------------------------------------------------------------------------

Matrix(f(_, _)) == Array([r \in Idx |-> Array([c \in Idx |-> f(r, c)])])

\* (np.sin(xv * 10) * np.cos(yv * 5) * 127 + 128).astype("uint8") over
\* np.linspace(0, 1, CANVAS_SIZE) in both directions
FallbackTexture == << << 128, 6, 58 >>, << 128, 225, 183 >>, << 128, 93, 108 >> >>

FlatGray == Matrix(LAMBDA r, c : 128)

Photo == << << 0, 40, 255 >>, << 20, 128, 255 >>, << 0, 200, 90 >> >>

\* Image.open(path): the decoded picture, or the exception PIL raises.  The
\* pictures on disk are square and of canvas size.
ImageOpen(path) ==
    CASE path = "flat.jpg"    -> [exc |-> "none", img |-> FlatGray]
      [] path = "photo.jpg"   -> [exc |-> "none", img |-> Photo]
      [] path = "corrupt.jpg" -> [exc |-> "UnidentifiedImageError", img |-> << >>]
      [] OTHER                -> [exc |-> "FileNotFoundError", img |-> << >>]

\* crop_center_square on an image of min_dim x min_dim: the crop box is the
\* whole image
crop_center_square(img) ==
    LET width == Len(img[1])
        height == Len(img)
        min_dim == IF width < height THEN width ELSE height
        left == (width - min_dim) \div 2
        top == (height - min_dim) \div 2
    IN  Array([r \in 1..min_dim |->
                  Array([c \in 1..min_dim |-> img[top + r][left + c]])])

\* number of samples of s that are <= v
CountLeq(s, v) == Cardinality({i \in DOMAIN s : s[i] <= v})

\* k-th smallest sample of s, k in 1..Len(s)
OrderStat(s, k) ==
    CHOOSE v \in Values(s) : CountLeq(s, v) >= k /\ CountLeq(s, v - 1) < k

\* np.percentile(data, q), linear interpolation between the two nearest
\* order statistics, in 1/100 of a sample
Percentile(s, q) ==
    LET pos == q * (Len(s) - 1)
        lo == pos \div 100
        frac == pos % 100
    IN  IF frac = 0 THEN 100 * OrderStat(s, lo + 1)
        ELSE (100 - frac) * OrderStat(s, lo + 1) + frac * OrderStat(s, lo + 2)

\* load_image_data: the exception that escapes it (or "none") and the
\* RawField in tenths
load_image_data(image_path) ==
    LET opened == IF image_path /= "" THEN ImageOpen(image_path)
                  ELSE [exc |-> "FileNotFoundError", img |-> << >>]
        caught == opened.exc \in {"FileNotFoundError", "AttributeError"}
        input_img == IF caught THEN FallbackTexture ELSE opened.img
        img == crop_center_square(input_img)
        flat == Flatten(img)
        p_min == Percentile(flat, 2)
        p_max == Percentile(flat, 98)
        stretch(v) ==
            IF p_max - p_min > 0
            THEN Clip(((100 * v - p_min) * 10) \div (p_max - p_min), 0, 10)
            ELSE Clip((v * 10) \div 255, 0, 10)
    IN  IF opened.exc /= "none" /\ ~caught
        THEN [exc |-> opened.exc, data |-> << >>]
        ELSE [exc |-> "none", data |-> Matrix(LAMBDA r, c : stretch(img[r][c]))]

\* ------------------------------------------------------------------------
\*  Brightness Processor
\* ------------------------------------------------------------------------

\* 1 / (1 + exp(-(v - midpoint) * steepness)) in thousandths, for v = 0,
\* 0.1, ..., 1 and the (steepness, midpoint in tenths) pairs the model uses
LogisticTable(steepness, midpoint) ==
    CASE steepness = 1 /\ midpoint = 3 ->
            << 426, 450, 475, 500, 525, 550, 574, 599, 622, 646, 668 >>
      [] steepness = 1 /\ midpoint = 5 ->
            << 378, 401, 426, 450, 475, 500, 525, 550, 574, 599, 622 >>
      [] steepness = 9 /\ midpoint = 3 ->
            << 63, 142, 289, 500, 711, 858, 937, 973, 989, 996, 998 >>
      [] steepness = 9 /\ midpoint = 5 ->
            << 11, 27, 63, 142, 289, 500, 711, 858, 937, 973, 989 >>

\* (v - lo) / (hi - lo) scaled to 0..255; 0.0 / 0.0 is NaN
MinMax(v, lo, hi) == IF hi = lo THEN NaN ELSE ((v - lo) * 255) \div (hi - lo)

\* np.flipud
FlipUd(m) == Array([r \in Idx |-> m[CANVAS_SIZE + 1 - r]])

\* apply_image_effects under the process parameters pp: the exception that
\* escapes it (or "none") and the BrightnessBuffer
apply_image_effects(data, pp) ==
    LET tab == LogisticTable(pp.contrast_steepness, pp.contrast_midpoint)
        curve == Matrix(LAMBDA r, c : tab[data[r][c] + 1])
        lo == NpMin(Flatten(curve))
        hi == NpMax(Flatten(curve))
        norm == Matrix(LAMBDA r, c : MinMax(curve[r][c], lo, hi))
        sigma == pp.blur_sigma
    IN  IF sigma = 0 THEN [exc |-> "ZeroDivisionError", out |-> << >>]
        ELSE [exc |-> "none",
              out |-> FlipUd(FilterAxis1(FilterAxis0(norm, sigma), sigma))]

\* the settings of PROCESS_PARAMS the sliders can produce
ProcessSettings ==
    [contrast_steepness : {1, 9}, contrast_midpoint : {3, 5},
     blur_sigma : {0, 1, 3}]

\* PROCESS_PARAMS within the parameter store p
ProcessParams(p) ==
    [contrast_steepness |-> p.contrast_steepness,
     contrast_midpoint |-> p.contrast_midpoint,
     blur_sigma |-> p.blur_sigma]

\* the paths the file dialog or the configuration can name
Paths == {"", "input.jpg", "missing.jpg", "corrupt.jpg", "flat.jpg", "photo.jpg"}

\* load_image_data(path), evaluated once per path
Loaded == [path \in Paths |-> load_image_data(path)] @@ << >>

RawFields == {Loaded[path].data : path \in {q \in Paths : Loaded[q].exc = "none"}}

\* apply_image_effects(data) under PROCESS_PARAMS = pp, evaluated once per
\* RawField and setting
Effects == [data \in RawFields |->
               [pp \in ProcessSettings |-> apply_image_effects(data, pp)]
                   @@ << >>] @@ << >>

\* ------------------------------------------------------------------------
\*  State
\* ------------------------------------------------------------------------

VARIABLES
    params,               \* the parameter store: the six physics parameters
                          \* and PROCESS_PARAMS, keyed as the panel keys them
    current_image_path,
    raw_normalized_data,  \* RawField
    pixels,               \* BrightnessBuffer the tick samples
    img_data,             \* the array img_obj displays
    img_visible,          \* img_obj.get_visible()
    scat_visible,         \* scat.get_visible()
    current_bg_color,
    current_dot_color,
    particles_x,          \* ParticleSet: sequence of Columns
    frame_count,          \* Tick Counter
    is_generating,
    stop_label,           \* label of the Stop/Start button
    offsets,              \* the point list last handed to scat.set_offsets
    discarded,            \* number of Columns the last tick did not keep
    handler,              \* the callback that ran last
    raised,               \* the exception that escaped it, or "none"
    recomputed            \* whether it called apply_image_effects

vars == << params, current_image_path, raw_normalized_data, pixels, img_data,
           img_visible, scat_visible, current_bg_color, current_dot_color,
           particles_x, frame_count, is_generating, stop_label, offsets,
           discarded, handler, raised, recomputed >>

PhysicsKeys == {"LINES_PER_FRAME", "FRAME_INTERVAL", "BASE_SPEED",
                "FRICTION_FACTOR", "ACCELERATION", "LINE_TENSION"}

ProcessKeys == {"contrast_steepness", "contrast_midpoint", "blur_sigma"}

\* the values a parameter is given, by its slider or in the configuration
\* block of main.py (BASE_SPEED in
\* position units per tick, FRICTION_FACTOR, LINE_TENSION, contrast_midpoint
\* and blur_sigma in tenths, ACCELERATION in hundredths)
SliderValues(key) ==
    CASE key = "LINES_PER_FRAME"    -> {1, 2}
      [] key = "FRAME_INTERVAL"     -> {1, 2}
      [] key = "BASE_SPEED"         -> {2, 3}
      [] key = "FRICTION_FACTOR"    -> {0, 9, 10}
      [] key = "ACCELERATION"       -> {0, 25}
      [] key = "LINE_TENSION"       -> {3, 5}
      [] key = "contrast_steepness" -> {1, 9}
      [] key = "contrast_midpoint"  -> {3, 5}
      [] key = "blur_sigma"         -> {0, 1, 3}

\* the module-level parameter values of main.py, on the scale of the model
DefaultParams ==
    [LINES_PER_FRAME |-> 1, FRAME_INTERVAL |-> 1, BASE_SPEED |-> 3,
     FRICTION_FACTOR |-> 9, ACCELERATION |-> 0, LINE_TENSION |-> 3,
     contrast_steepness |-> 9, contrast_midpoint |-> 3, blur_sigma |-> 3]

\* the colour a colour dialog returns when it is not cancelled
Colors == {"#000000"}

\* np.zeros(CANVAS_SIZE)
ZeroColumn == Array([i \in Idx |-> 0])

\* right edge of the canvas in position units
Edge == CANVAS_SIZE * SubPx

\* number of parameters of the store p that are not at their default
OffDefault(p) == Cardinality({k \in DOMAIN p : p[k] /= DefaultParams[k]})

\* the configurations the program is started with; blur_sigma = 0 does not
\* get through start-up
Configs ==
    {p \in [LINES_PER_FRAME : SliderValues("LINES_PER_FRAME"),
            FRAME_INTERVAL : SliderValues("FRAME_INTERVAL"),
            BASE_SPEED : SliderValues("BASE_SPEED"),
            FRICTION_FACTOR : SliderValues("FRICTION_FACTOR"),
            ACCELERATION : SliderValues("ACCELERATION"),
            LINE_TENSION : SliderValues("LINE_TENSION"),
            contrast_steepness : SliderValues("contrast_steepness"),
            contrast_midpoint : SliderValues("contrast_midpoint"),
            blur_sigma : SliderValues("blur_sigma")] :
        OffDefault(p) <= MaxMoved /\ p.blur_sigma /= 0}

\* the state once the module body has run, with the configuration p and
\* the BrightnessBuffer buffer
Loop(p, buffer) ==
    /\ params = p
    /\ current_image_path = "input.jpg"
    /\ raw_normalized_data = Loaded["input.jpg"].data
    /\ pixels = buffer
    /\ img_data = buffer
    /\ img_visible = FALSE
    /\ scat_visible = TRUE
    /\ current_bg_color = "#3A4F68"
    /\ current_dot_color = "#e1ebf5"
    /\ particles_x = << >>
    /\ frame_count = 0
    /\ is_generating = TRUE
    /\ stop_label = "Stop"
    /\ offsets = << >>
    /\ discarded = 0
    /\ handler = "startup"
    /\ raised = "none"
    /\ recomputed = TRUE

\* ------------------------------------------------------------------------
\*  Button callbacks
\* ------------------------------------------------------------------------

toggle_view ==
    /\ img_visible' = ~img_visible
    /\ scat_visible' = img_visible
    /\ handler' = "toggle_view"
    /\ raised' = "none"
    /\ recomputed' = FALSE
    /\ UNCHANGED << params, current_image_path, raw_normalized_data, pixels,
                    img_data, current_bg_color, current_dot_color,
                    particles_x, frame_count, is_generating, stop_label,
                    offsets, discarded >>

\* file_path is what the file dialog returns, "" when it is cancelled
select_image(file_path) ==
    LET loaded == Loaded[file_path]
        effects == Effects[loaded.data][ProcessParams(params)]
    IN  /\ handler' = "select_image"
        /\ UNCHANGED << params, img_visible, scat_visible, current_bg_color,
                        current_dot_color, is_generating, stop_label, offsets,
                        discarded >>
        /\ IF file_path = ""
           THEN /\ raised' = "none"
                /\ recomputed' = FALSE
                /\ UNCHANGED << current_image_path, raw_normalized_data,
                                pixels, img_data, particles_x, frame_count >>
           ELSE /\ current_image_path' = file_path
                /\ IF loaded.exc /= "none"
                   THEN /\ raised' = loaded.exc
                        /\ recomputed' = FALSE
                        /\ UNCHANGED << raw_normalized_data, pixels, img_data,
                                        particles_x, frame_count >>
                   ELSE /\ raw_normalized_data' = loaded.data
                        /\ recomputed' = TRUE
                        /\ IF effects.exc /= "none"
                           THEN /\ raised' = effects.exc
                                /\ UNCHANGED << pixels, img_data, particles_x,
                                                frame_count >>
                           ELSE /\ raised' = "none"
                                /\ pixels' = effects.out
                                /\ img_data' = effects.out
                                /\ particles_x' = << >>
                                /\ frame_count' = 0

\* color is what the colour dialog returns, "" when it is cancelled
set_bg_color(color) ==
    /\ current_bg_color' = IF color /= "" THEN color ELSE current_bg_color
    /\ handler' = "set_bg_color"
    /\ raised' = "none"
    /\ recomputed' = FALSE
    /\ UNCHANGED << params, current_image_path, raw_normalized_data, pixels,
                    img_data, img_visible, scat_visible, current_dot_color,
                    particles_x, frame_count, is_generating, stop_label,
                    offsets, discarded >>

\* color is what the colour dialog returns, "" when it is cancelled.  The
\* name pixels the callback assigns is local to it: the buffer the tick
\* samples stays, the displayed array is replaced.
set_dot_color(color) ==
    LET effects == Effects[raw_normalized_data][ProcessParams(params)]
    IN  /\ current_dot_color' = IF color /= "" THEN color ELSE current_dot_color
        /\ handler' = "set_dot_color"
        /\ recomputed' = TRUE
        /\ raised' = effects.exc
        /\ img_data' = IF effects.exc = "none" THEN effects.out ELSE img_data
        /\ UNCHANGED << params, current_image_path, raw_normalized_data,
                        pixels, img_visible, scat_visible, current_bg_color,
                        particles_x, frame_count, is_generating, stop_label,
                        offsets, discarded >>

toggle_generation ==
    /\ is_generating' = ~is_generating
    /\ stop_label' = IF ~is_generating' THEN "Start" ELSE "Stop"
    /\ handler' = "toggle_generation"
    /\ raised' = "none"
    /\ recomputed' = FALSE
    /\ UNCHANGED << params, current_image_path, raw_normalized_data, pixels,
                    img_data, img_visible, scat_visible, current_bg_color,
                    current_dot_color, particles_x, frame_count, offsets,
                    discarded >>

\* ------------------------------------------------------------------------
\*  Slider panel
\* ------------------------------------------------------------------------

\* the callback the panel is given for a process parameter: the Brightness
\* Processor is run again on the cached RawField under the store p, the
\* simulation is not reset
on_process_change(p) ==
    LET effects == Effects[raw_normalized_data][ProcessParams(p)]
    IN  /\ recomputed' = TRUE
        /\ raised' = effects.exc
        /\ pixels' = IF effects.exc = "none" THEN effects.out ELSE pixels
        /\ img_data' = IF effects.exc = "none" THEN effects.out ELSE img_data

\* ControlPanelMSG._add_slider.update of the slider bound to key
update(key, val) ==
    /\ params' = [params EXCEPT ![key] = val]
    /\ OffDefault(params') <= MaxMoved
    /\ handler' = "update"
    /\ IF key \in ProcessKeys
       THEN on_process_change(params')
       ELSE /\ recomputed' = FALSE
            /\ raised' = "none"
            /\ UNCHANGED << pixels, img_data >>
    /\ UNCHANGED << current_image_path, raw_normalized_data, img_visible,
                    scat_visible, current_bg_color, current_dot_color,
                    particles_x, frame_count, is_generating, stop_label,
                    offsets, discarded >>

\* ------------------------------------------------------------------------
\*  Core animation loop
\* ------------------------------------------------------------------------

\* np.clip(x, 0, CANVAS_SIZE - 1).astype(int), as a 1-based column index
ColumnIndex(x) == (Clip(x, 0, (CANVAS_SIZE - 1) * SubPx) \div SubPx) + 1

\* BASE_SPEED * (1.0 - (norm_b * FRICTION_FACTOR)) for the brightness b
CurrentSpeed(b, p) ==
    IF IsNaN(b) THEN NaN
    ELSE (p.BASE_SPEED * (2550 - b * p.FRICTION_FACTOR) + 1275) \div 2550

\* col_x * ACCELERATION
XAccel(x, p) == (x * p.ACCELERATION + 50) \div 100

\* col_x += final_speed, on the buffer px
Move(col_x, px, p) ==
    Array([i \in Idx |->
        Add(col_x[i],
            Add(CurrentSpeed(px[i][ColumnIndex(col_x[i])], p),
                XAccel(col_x[i], p)))])

\* a cull on the rightmost point: np.max(col_x) < CANVAS_SIZE
RetainedByMax(col_x) == Less(NpMax(col_x), Edge)

\* np.min(col_x) < CANVAS_SIZE
Retained(col_x) == Less(NpMin(col_x), Edge)

\* the line the tick generates: one, whatever LINES_PER_FRAME of p is
NewColumns(p) == << ZeroColumn >>

\* a mask that lets the points on the edge through: all_x <= CANVAS_SIZE
PointsUpToEdge(cols) ==
    LET all_x == Flatten(cols)
        y_indices == Array([i \in Idx |-> i - 1])
        all_y == Flatten(Array([k \in 1..Len(cols) |-> y_indices]))
        pairs == Array([n \in 1..Len(all_x) |-> << all_x[n], all_y[n] >>])
        OnCanvas(pt) == ~IsNaN(pt[1]) /\ pt[1] <= Edge
    IN  SelectSeq(pairs, OnCanvas)

\* the points of the Columns cols whose x is on the canvas, as (x, y) pairs
\* in the order of np.array(particles_x).flatten(), y counted from 0
Points(cols) ==
    LET all_x == Flatten(cols)
        y_indices == Array([i \in Idx |-> i - 1])
        all_y == Flatten(Array([k \in 1..Len(cols) |-> y_indices]))
        pairs == Array([n \in 1..Len(all_x) |-> << all_x[n], all_y[n] >>])
        OnCanvas(pt) == Less(pt[1], Edge)
    IN  SelectSeq(pairs, OnCanvas)

\* frame_count after the increment of the tick
Tick == frame_count + 1

\* particles_x after the generation step of the tick
Spawned ==
    IF is_generating /\ Tick % params.FRAME_INTERVAL = 0
    THEN particles_x \o NewColumns(params)
    ELSE particles_x

\* outcome of "Move" then "Smooth" on one Column: the exception the filter
\* raises (or "none"), the Column as moved in place, the smoothed Column
StepColumn(col_x) ==
    LET moved == Move(col_x, pixels, params)
        smooth == GaussianFilter1d(moved, params.LINE_TENSION)
    IN  [exc |-> smooth.exc, moved |-> moved, out |-> smooth.out]

\* every Column after "Move" and "Smooth"
Stepped ==
    LET cols == Spawned
    IN  Array([k \in 1..Len(cols) |-> StepColumn(cols[k]).out])

animate ==
    LET cols == Spawned
        first == StepColumn(cols[1])
        stepped == Stepped
        active_particles == SelectSeq(stepped, Retained)
    IN  /\ frame_count < MaxFrame
        /\ frame_count' = Tick
        /\ handler' = "animate"
        /\ recomputed' = FALSE
        /\ IF cols /= << >> /\ first.exc /= "none"
           THEN \* the filter raises on the first Column, which has been
                \* moved in place; the rest of the tick is not run
                /\ raised' = first.exc
                /\ particles_x' = [cols EXCEPT ![1] = first.moved]
                /\ discarded' = 0
                /\ UNCHANGED offsets
           ELSE /\ raised' = "none"
                /\ particles_x' = active_particles
                /\ discarded' = Len(stepped) - Len(active_particles)
                /\ offsets' = Points(active_particles)
        /\ UNCHANGED << params, current_image_path, raw_normalized_data,
                        pixels, img_data, img_visible, scat_visible,
                        current_bg_color, current_dot_color, is_generating,
                        stop_label >>

\* ------------------------------------------------------------------------
\*  Specification
\* ------------------------------------------------------------------------

\* start-up: the image is loaded and processed under the configuration p
Start(p) ==
    Loop(p, Effects[Loaded["input.jpg"].data][ProcessParams(p)].out)

\* main.py on its own: the tick and the five buttons
Init == \E p \in Configs : Start(p)

Next ==
    \/ animate
    \/ toggle_view
    \/ \E file_path \in {"", "corrupt.jpg", "flat.jpg", "photo.jpg"} :
          select_image(file_path)
    \/ \E color \in Colors \cup {""} : set_bg_color(color)
    \/ \E color \in Colors \cup {""} : set_dot_color(color)
    \/ toggle_generation

Spec == Init /\ [][Next]_vars

\* the simulation with the slider panel: the mapping the panel writes
\* (self.params) is taken to be the store that the tick and the Brightness
\* Processor read
PanelInit == Start(DefaultParams)

PanelNext ==
    \/ animate
    \/ toggle_generation
    \/ \E key \in PhysicsKeys \cup ProcessKeys :
          \E val \in SliderValues(key) : update(key, val)

PanelSpec == PanelInit /\ [][PanelNext]_vars

\* the tick procedure on its own in the rigid translation scenario: one line
\* every tick, no friction, no acceleration, no tension, a uniform
\* BrightnessBuffer
RigidSpeeds == {1, 2, 3, 5}

UniformLevels == {0, 32, 64, 96, 128, 160, 192, 224, 255}

RigidParams(speed) ==
    [DefaultParams EXCEPT !.LINES_PER_FRAME = 1, !.FRAME_INTERVAL = 1,
                          !.BASE_SPEED = speed, !.FRICTION_FACTOR = 0,
                          !.ACCELERATION = 0, !.LINE_TENSION = 0]

RigidInit ==
    \E speed \in RigidSpeeds : \E level \in UniformLevels :
        Loop(RigidParams(speed), Matrix(LAMBDA r, c : level))

RigidNext ==
    \/ animate
    \/ toggle_generation

RigidSpec == RigidInit /\ [][RigidNext]_vars

TypeOK ==
    /\ frame_count \in 0..MaxFrame
    /\ Len(particles_x) <= frame_count
    /\ \A k \in 1..Len(particles_x) : \A i \in Idx : particles_x[k][i] >= 0
    /\ raised \in {"none", "UnidentifiedImageError", "ZeroDivisionError"}

\* ------------------------------------------------------------------------
\*  Properties
\* ------------------------------------------------------------------------

\* the tick is due to generate lines
SpawnDue == is_generating /\ Tick % params.FRAME_INTERVAL = 0

NoNaN(m) == \A r \in Idx : \A c \in Idx : ~IsNaN(m[r][c])

\* C1: a tick that discards no Column leaves LINES_PER_FRAME more Columns
\* than it found when generation is enabled and the incremented frame count
\* is a multiple of FRAME_INTERVAL, and as many as it found otherwise.
C1_SpawnRule ==
    [][(handler' = "animate" /\ raised' = "none" /\ discarded' = 0)
          => Len(particles_x') =
                Len(particles_x)
                  + (IF SpawnDue THEN params.LINES_PER_FRAME ELSE 0)]_vars

\* C2: after a tick the ParticleSet is, in order, exactly the Columns that
\* were live or generated in the tick and have, once moved and smoothed, at
\* least one position left of the right edge.
C2_CullCorrectness ==
    [][handler' = "animate"
          => LET kept == {k \in 1..Len(Stepped) :
                             \E i \in Idx : /\ ~IsNaN(Stepped[k][i])
                                            /\ Stepped[k][i] < Edge}
                 rank(k) == Cardinality({j \in kept : j <= k})
             IN  /\ Len(particles_x') = Cardinality(kept)
                 /\ \A k \in kept : particles_x'[rank(k)] = Stepped[k]]_vars

\* a tick on a NaN-free buffer has discarded a Column and kept another
C2_Witness ==
    /\ handler = "animate"
    /\ NoNaN(pixels)
    /\ discarded > 0
    /\ particles_x /= << >>

\* C3: a uniform RawField (logistic output with max = min) is processed to
\* the all-zero BrightnessBuffer, without NaN.
C3_DegenerateRenormalization ==
    (\A r \in Idx : \A c \in Idx :
        raw_normalized_data[r][c] = raw_normalized_data[1][1])
       => \A r \in Idx : \A c \in Idx : pixels[r][c] = 0

\* C4: whatever path is selected, loading raises nothing and the RawField is
\* the field of that path, the fallback field when the path cannot be
\* loaded; the empty path and a missing file give the same field.
C4_LoaderNeverFails ==
    /\ handler = "select_image"
          => /\ raised = "none"
             /\ raw_normalized_data = Loaded[current_image_path].data
             /\ Len(raw_normalized_data) = CANVAS_SIZE
    /\ Loaded[""] = Loaded["missing.jpg"]

\* C5: selecting a non-empty path replaces the RawField by the loaded field
\* and the BrightnessBuffer by its processing under the current process
\* parameters, empties the ParticleSet and zeroes the frame count.
C5_SelectImageResets ==
    [][\A file_path \in Paths \ {""} :
          select_image(file_path)
             => /\ raw_normalized_data' = Loaded[file_path].data
                /\ pixels' = Effects[raw_normalized_data']
                                    [ProcessParams(params)].out
                /\ particles_x' = << >>
                /\ frame_count' = 0]_vars

\* C6: the tick and the buttons other than the image selection neither run
\* the Brightness Processor nor change the buffer the tick samples.
C6_BufferCached ==
    [][handler' \in {"animate", "toggle_view", "set_bg_color",
                     "set_dot_color", "toggle_generation"}
          => ~recomputed' /\ pixels' = pixels]_vars

\* C7: a slider write to a physics parameter changes neither the
\* ParticleSet nor the frame count nor the BrightnessBuffer, and the tick
\* runs on the values the store holds: it generates LINES_PER_FRAME lines
\* every FRAME_INTERVAL ticks and moves, smooths and culls under BASE_SPEED,
\* FRICTION_FACTOR, ACCELERATION and LINE_TENSION of the store.
C7_PhysicsWriteVisible ==
    [][/\ (handler' = "update" /\ ProcessParams(params') = ProcessParams(params))
            => UNCHANGED << particles_x, frame_count, pixels >>
       /\ handler' = "animate"
            => LET lines == [k \in 1..params.LINES_PER_FRAME |-> ZeroColumn]
                   cols == IF SpawnDue THEN particles_x \o lines
                           ELSE particles_x
                   stepped == [k \in 1..Len(cols) |->
                                  Correlate1d(Move(cols[k], pixels, params),
                                              params.LINE_TENSION)]
               IN  particles_x' = SelectSeq(stepped, Retained)]_vars

\* C8: the Column a tick generates is in the ParticleSet when the tick ends.
C8_NewColumnKept ==
    [][(handler' = "animate" /\ SpawnDue)
          => /\ particles_x' /= << >>
             /\ particles_x'[Len(particles_x')] = Stepped[Len(Stepped)]]_vars

\* C9: in the rigid translation scenario every tick is carried out, every
\* Column has all its rows at j * BASE_SPEED for the number j >= 1 of ticks
\* it has been through, the first tick leaves exactly one Column, and no
\* Column is discarded in a tick k with k * BASE_SPEED left of the edge.
C9_RigidTranslation ==
    handler = "animate"
       => /\ raised = "none"
          /\ \A k \in 1..Len(particles_x) :
                \E j \in 1..frame_count :
                   \A i \in Idx : particles_x[k][i] = j * params.BASE_SPEED
          /\ (frame_count = 1 /\ is_generating) => Len(particles_x) = 1
          /\ discarded > 0 => frame_count * params.BASE_SPEED >= Edge

\* C10: the point list a tick hands over is, in the order of the Columns
\* and rows, exactly the (x, row) pairs of the Columns of the ParticleSet
\* with x left of the right edge; it is empty when the ParticleSet is.
C10_EmitOnCanvas ==
    handler = "animate"
       => LET on == {kr \in (1..Len(particles_x)) \X Idx :
                        particles_x[kr[1]][kr[2]] < Edge}
              before(a, b) == a[1] < b[1] \/ (a[1] = b[1] /\ a[2] <= b[2])
              rank(kr) == Cardinality({o \in on : before(o, kr)})
          IN  /\ Len(offsets) = Cardinality(on)
              /\ \A n \in DOMAIN offsets : offsets[n][1] < Edge
              /\ \A kr \in on :
                    offsets[rank(kr)] =
                       << particles_x[kr[1]][kr[2]], kr[2] - 1 >>
              /\ particles_x = << >> => offsets = << >>

\* a tick has kept a Column that is partly past the right edge: some of its
\* points are handed over, the others are not
C10_Witness ==
    /\ handler = "animate"
    /\ offsets /= << >>
    /\ \E k \in 1..Len(particles_x) :
          /\ \E i \in Idx : particles_x[k][i] >= Edge
          /\ \E i \in Idx : particles_x[k][i] < Edge

=============================================================================
